---------------------------- MODULE Spec2Model ----------------------------
(***************************************************************************)
(* Model of conda-helpers' asynchronous process execution engine:          *)
(*   - with_loop        (asyncio_util.py / __init__.py)   : SpecLoop       *)
(*   - run_command      (_async_py35.py / _async_py27.py) : SpecStream     *)
(*   - conda_exec_memoize over conda_exec (__main__.py)   : Spec           *)
(* Each specification moves its own variables and leaves the others alone. *)
(***************************************************************************)
EXTENDS Integers, Sequences, FiniteSets, TLC

VARIABLES
    \* ---- with_loop (SpecLoop) ----
    lpc,             \* position of the calling thread inside wrapped()
    lenv,            \* the calling thread's scheduler state and the platform
    lcall,           \* the call: positional args, keyword args, the factory's arity
    taskEnd,         \* how the task ends once it is driven
    lpath,           \* which branch wrapped() took
    factoryCall,     \* the arguments func was invoked with
    tpc,             \* position of the worker thread inside _run
    finished,        \* the threading.Event with its result / error attributes
    loutcome,        \* what wrapped() gave its caller
    \* ---- run_command (SpecStream) ----
    rpc,             \* position of the run_command coroutine
    rin,             \* its inputs: shell, verbose, and what the OS and the child will do
    cpos,            \* how many bytes of its script the child has written
    calive,          \* the child process has been created and has not exited
    closed,          \* the child has closed its ends of both pipes
    pipe,            \* bytes written by the child and not yet read, per stream
    reader,          \* state of each _read_stream task
    sbuf,            \* stdout_ / stderr_ : the StringIO buffers
    echo,            \* what dump() printed to the caller's standard output
    cmd_finished,    \* the asyncio.Event
    status,          \* position of the display_status task
    glyph,           \* position of the waiting_indicator cycle
    routcome,        \* what run_command gave its caller
    \* ---- conda_exec_memoize (Spec) ----
    fs,              \* the files and directories the arguments can name
    store,           \* the joblib cache: the persisted output.pkl entries
    last,            \* the most recent call of conda_exec_memoize and its effects
    cargs,           \* the argument vector of the calls
    callers          \* the calls in progress at the same time, each at its line

loopVars == <<lpc, lenv, lcall, taskEnd, lpath, factoryCall, tpc, finished, loutcome>>

streamVars == <<rpc, rin, cpos, calive, closed, pipe, reader, sbuf, echo,
                cmd_finished, status, glyph, routcome>>

cacheVars == <<cargs, fs, store, last, callers>>

vars == <<loopVars, streamVars, cacheVars>>

(***************************************************************************)
(* Values.  Every value is a record so that any two can be compared.       *)
(***************************************************************************)
None == [t |-> "None"]

\* The value a task returns: it echoes what the factory received.
TaskValue(args, kwargs) == [t |-> "value", args |-> args, kwargs |-> kwargs]

\* An error object: its class and its identity.
ErrorObj(cls, id) == [t |-> "error", cls |-> cls, id |-> id]

Return(v) == [kind |-> "return", val |-> v]
Raise(e)  == [kind |-> "raise",  val |-> e]
NoOutcome == [kind |-> "none",   val |-> None]

(***************************************************************************)
(* run_command                                                             *)
(***************************************************************************)
Streams == {"out", "err"}

W(s, b) == [s |-> s, b |-> b]

\* What a child writes, byte by byte, in the order it writes it: the ASCII
\* letters A, B, C (65, 66, 67) and the two bytes (195, 169) of one two-byte
\* UTF-8 character.

\* Room in one pipe (OS buffer plus the StreamReader's buffer).
PipeCap == 2

\* A child that writes one two-byte character and then as many letters as a
\* pipe holds, all to stdout.
Flood == <<W("out", 195), W("out", 169)>> \o [i \in 1..PipeCap |-> W("out", 65)]

Scripts == {
    <<>>,
    <<W("out", 65), W("err", 66), W("out", 67)>>,
    <<W("out", 195), W("out", 169)>>,
    <<W("err", 195), W("err", 169), W("out", 65)>>,
    Flood }

\* The length of the waiting_indicator cycle r'\|/-'.
NGlyphs == 4

\* bytes.decode('utf8') of one chunk: strict, so a chunk that ends inside a
\* character or starts with a continuation byte is an error.  A character
\* is kept as the tuple of its bytes.
RECURSIVE Decode(_)
Decode(bs) ==
    IF bs = <<>> THEN [ok |-> TRUE, text |-> <<>>]
    ELSE IF Head(bs) < 128
    THEN LET r == Decode(Tail(bs)) IN
         [ok |-> r.ok, text |-> <<<<Head(bs)>>>> \o r.text]
    ELSE IF Head(bs) \in 194..223 /\ Len(bs) >= 2 /\ bs[2] \in 128..191
    THEN LET r == Decode(SubSeq(bs, 3, Len(bs))) IN
         [ok |-> r.ok, text |-> <<<<bs[1], bs[2]>>>> \o r.text]
    ELSE [ok |-> FALSE, text |-> <<>>]

\* The bytes a script writes to one stream, in order.
RECURSIVE StreamBytes(_, _)
StreamBytes(script, s) ==
    IF script = <<>> THEN <<>>
    ELSE (IF Head(script).s = s THEN <<Head(script).b>> ELSE <<>>)
         \o StreamBytes(Tail(script), s)

\* A spawn that never fails: whatever goes wrong is left to the exit code.
SpawnAlwaysSucceeds(in) == "process"

\* create_subprocess_shell starts the system shell with the command line;
\* create_subprocess_exec starts the program itself.  Only a process that
\* cannot be created makes the call raise.
SpawnOutcome(in) ==
    IF in.shell
    THEN (IF in.shellOk THEN "process" ELSE "OSError")
    ELSE (IF in.programOk THEN "process" ELSE "FileNotFoundError")

\* What the created child does.  A shell that cannot find or start the
\* program writes its complaint to stderr and exits with 127.
ChildScript(in) ==
    IF in.shell /\ ~in.programOk THEN <<W("err", 66)>> ELSE in.script

ChildExitCode(in) ==
    IF in.shell /\ ~in.programOk THEN 127 ELSE in.exit

\* dump(): `if verbose:` echoes for True only; None and False are falsy.
Echoes(verbose) == verbose = "True"

Result(rc, out, err) == [t |-> "result", rc |-> rc, stdout |-> out, stderr |-> err]

StreamInputs ==
    [shell : BOOLEAN, verbose : {"True", "False", "None"}, shellOk : BOOLEAN,
     programOk : BOOLEAN, script : Scripts, exit : {0, 1}]

StreamIdle ==
    /\ rpc = "start"
    /\ cpos = 0
    /\ calive = FALSE
    /\ closed = FALSE
    /\ pipe = [s \in Streams |-> <<>>]
    /\ reader = [s \in Streams |-> "run"]
    /\ sbuf = [s \in Streams |-> <<>>]
    /\ echo = <<>>
    /\ cmd_finished = FALSE
    /\ status = "none"
    /\ glyph = 0
    /\ routcome = NoOutcome

(***************************************************************************)
(* with_loop                                                               *)
(***************************************************************************)
\* Positional argument vectors and keyword sets a caller passes.
MaxArgs == 1

ArgVectors == UNION {[1..n -> {"cmd"}] : n \in 0..MaxArgs}

KwargSets == SUBSET {"shell", "verbose"}

\* How a task can end: a value, an Exception, or a BaseException that is not
\* an Exception (SystemExit, KeyboardInterrupt, CancelledError).
TaskEnds == {"return", "Exception", "BaseException"}

LoopEnvs == [hasLoop : BOOLEAN, running : BOOLEAN, proactor : BOOLEAN,
             windows : BOOLEAN]

\* States of a thread's loop that can exist: a running or proactor loop is a
\* loop, and ProactorEventLoop exists on Windows only.
ValidEnv(e) ==
    /\ (e.running \/ e.proactor) => e.hasLoop
    /\ e.proactor => e.windows

\* new_file_event_loop: a ProactorEventLoop on Windows.
new_file_event_loop(windows) == [running |-> FALSE, proactor |-> windows]

\* ensure_event_loop: the thread's loop, or a new one bound to the thread.
ensure_event_loop(e) ==
    IF e.hasLoop THEN [running |-> e.running, proactor |-> e.proactor]
    ELSE new_file_event_loop(e.windows)

\* The branch of wrapped().  The elif builds the list
\* [platform.system() == 'Windows', not isinstance(loop, asyncio.ProactorEventLoop)]
\* eagerly, and asyncio has no ProactorEventLoop attribute off Windows.
thread_required(loop, windows) ==
    IF loop.running THEN "thread"
    ELSE IF ~windows THEN "AttributeError"
    ELSE IF ~loop.proactor THEN "thread"
    ELSE "inline"

\* The arguments func receives on the worker-thread path: func(*args, **kwargs).
ThreadInvoke(args, kwargs) == [args |-> args, kwargs |-> kwargs]

\* The arguments func receives on the inline path: func(**kwargs).
InlineInvoke(args, kwargs) == [args |-> <<>>, kwargs |-> kwargs]

\* Calling the task factory: too few positional arguments is a TypeError at
\* the call, before any task exists.
FactoryAccepts(inv, arity) == Len(inv.args) >= arity

\* What driving the task to completion yields.
TaskOutcome(inv, end) ==
    IF end = "return" THEN Return(TaskValue(inv.args, inv.kwargs))
    ELSE Raise(ErrorObj(end, "task"))

\* _run's except clause catches Exception only.
Caught(outcome) == outcome.kind = "raise" /\ outcome.val.cls = "Exception"

\* What _run stores on the Event before finished.set().
RunStores(outcome) ==
    IF outcome.kind = "return"
    THEN [isSet |-> FALSE, result |-> outcome.val, error |-> None]
    ELSE [isSet |-> FALSE, result |-> None, error |-> outcome.val]

\* A wait that hands back the stored result and never looks at the error.
AfterWaitIgnoringError(ev) == Return(ev.result)

\* What the calling thread does after finished.wait().
AfterWait(ev) == IF ev.error # None THEN Raise(ev.error) ELSE Return(ev.result)

NoEvent == [isSet |-> FALSE, result |-> None, error |-> None]

LoopIdle ==
    /\ lpc = "idle"
    /\ lenv = [hasLoop |-> FALSE, running |-> FALSE, proactor |-> FALSE, windows |-> TRUE]
    /\ lcall = [args |-> <<>>, kwargs |-> {}, arity |-> 0]
    /\ taskEnd = "return"
    /\ lpath = "none"
    /\ factoryCall = None
    /\ tpc = "none"
    /\ finished = NoEvent
    /\ loutcome = NoOutcome


(***************************************************************************)
(* conda_exec_memoize: the file system, the fingerprint, the cache         *)
(***************************************************************************)
\* Number of different byte contents a plain file can hold.
NContents == 2

Contents == 1..NContents

\* The files of directory D.
DNames == {"a", "b"}

\* meta.yaml has one of three contents: 1 holds no git_url line, 2 holds a
\* git_url that resolves to no directory, 3 holds a git_url of a checkout.
MetaContents == 1..3

\* Orders in which the walk of D can list its files.
WalkOrders == {<<"a", "b">>, <<"b", "a">>}

\* Argument vectors of the calls: a file, a directory, a directory given as
\* the --croot value, and a recipe file named meta.yaml.
Invocations ==
    { <<"build", "F">>, <<"build", "D">>, <<"build", "--croot", "D">>,
      <<"render", "M">> }

\* The paths an argument vector names.
Named(args) == {args[i] : i \in 1..Len(args)}

IgnoreSets == {{}, {"F"}}

\* ph.path(a).exists(), isfile(), isdir(), name
Exists(a) == a \in {"F", "D", "M"}
IsFile(a) == a \in {"F", "M"}
IsDir(a)  == a = "D"
BaseName(a) == IF a = "M" THEN "meta.yaml" ELSE a

\* The existing paths an argument vector names.
Reachable(args) == {p \in Named(args) : Exists(p)}

\* realpath(): the absolute path, under the working directory.
realpath(a) == <<"root", a>>

\* A digest that reads the path and not the bytes.
HashOfPath(f, a) == realpath(a)

\* read_hexhash('sha1') of a file argument: one digest per content.
read_hexhash(f, a) == IF a = "F" THEN f.F.content ELSE f.M


\* git_src_info: match is None when the text holds no git_url, and
\* match.group raises; a git_url that is no directory falls off the end.
git_src_info(f) ==
    CASE f.M = 1 -> Raise(ErrorObj("AttributeError", "match"))
      [] f.M = 2 -> Return(None)
      [] OTHER   -> Return([t |-> "git", dir |-> <<"root", "src">>,
                            describe |-> "v1", head |-> "abc"])

\* a.walkfiles(): (f.realpath(), f.read_hexhash('sha1')) in listing order.
walkfiles(f) ==
    [i \in 1..Len(f.D.order) |->
        [path |-> <<"root", "D", f.D.order[i]>>,
         sha1 |-> f.D.content[f.D.order[i]]]]

\* An ignore test that never matches.
IgnoredNever(a, ign) == FALSE

\* a.realpath() in __ignore_paths__, the real paths of the ignore list.
Ignored(a, ign) == realpath(a) \in {realpath(p) : p \in ign}

NoContribution(a) ==
    [cmd |-> [lit |-> a], hashes |-> <<>>, git |-> <<>>, err |-> None]

\* What argument i adds in the loop over args: the command-line entry, the
\* file hashes, the git revisions, and the error that ends the loop.
ArgContribution(args, i, ign, f) ==
    LET a == args[i] IN
    IF i > 1 /\ args[i - 1] = "--croot" THEN NoContribution(a)
    ELSE IF Exists(a) /\ ~Ignored(a, ign)
    THEN IF IsFile(a)
         THEN LET g == IF BaseName(a) = "meta.yaml" THEN git_src_info(f)
                       ELSE NoOutcome
              IN [cmd    |-> [path |-> realpath(a)],
                  hashes |-> <<[path |-> realpath(a), sha1 |-> read_hexhash(f, a)]>>,
                  git    |-> IF g.kind = "return" THEN <<g.val>> ELSE <<>>,
                  err    |-> IF g.kind = "raise" THEN g.val ELSE None]
         ELSE [cmd    |-> [path |-> realpath(a)],
               hashes |-> <<[path |-> realpath(a), files |-> walkfiles(f)]>>,
               git    |-> <<>>,
               err    |-> None]
    ELSE NoContribution(a)

\* for i, a in enumerate(args): ...
RECURSIVE Scan(_, _, _, _)
Scan(args, i, ign, f) ==
    IF i > Len(args)
    THEN [cmd |-> <<>>, hashes |-> <<>>, git |-> <<>>, err |-> None]
    ELSE LET h == ArgContribution(args, i, ign, f)
             r == Scan(args, i + 1, ign, f)
         IN [cmd    |-> <<h.cmd>> \o r.cmd,
             hashes |-> h.hashes \o r.hashes,
             git    |-> h.git \o r.git,
             err    |-> IF h.err # None THEN h.err ELSE r.err]

\* conda_exec._get_output_dir(*cmd_args, **kwargs): joblib hashes the
\* arguments it is given; kwargs['verbose'] is always True by then.  The
\* digest is kept as the tuple it is computed from.
get_output_dir(sc) ==
    [args |-> sc.cmd, verbose |-> TRUE, file_hashes |-> sc.hashes,
     git_revisions |-> sc.git]

\* Lines 71-126: the cache key of a call, or the error raised on the way.
\* Printing the git sources unpacks each revision, and None does not unpack.
Fingerprint(args, ign, verbose, f) ==
    LET sc == Scan(args, 1, ign, f) IN
    IF sc.err # None THEN Raise(sc.err)
    ELSE IF verbose /\ \E i \in 1..Len(sc.git) : sc.git[i] = None
    THEN Raise(ErrorObj("TypeError", "unpack"))
    ELSE Return(get_output_dir(sc))

Text(chars) == [t |-> "text", chars |-> chars]

\* The store: at most one output.pkl per fingerprint.  `live` remembers what
\* the execution that produced the entry wrote to the caller's stdout.
\* A delete that leaves the file where it is.
NotRemoved(st, fp) == st

HasEntry(st, fp) == \E e \in st : e.fp = fp
EntryOf(st, fp) == CHOOSE e \in st : e.fp = fp
Removed(st, fp) == {e \in st : e.fp # fp}

\* A store that keeps one entry only, the newest.
PersistedAlone(st, fp, out, live) ==
    {[fp |-> fp, out |-> out, live |-> live, readable |-> TRUE]}

\* A store that forgets what it is given.
NotPersisted(st, fp, out, live) == st

\* joblib writes output.pkl for the fingerprint, replacing what was there.
Persisted(st, fp, out, live) ==
    Removed(st, fp) \cup {[fp |-> fp, out |-> out, live |-> live, readable |-> TRUE]}

\* An output.pkl whose bytes no longer unpickle: the file is there, what it
\* held is gone.
Unreadable(fp) ==
    [fp |-> fp, out |-> Text(<<>>), live |-> <<>>, readable |-> FALSE]

\* The memoized function finds output.pkl and unpickles it; when there is no
\* file or unpickling raises, it calls the function instead.
Loads(st, fp) == HasEntry(st, fp) /\ EntryOf(st, fp).readable

\* str.replace('\r\n', '\n')
RECURSIVE ReplaceCRLF(_)
ReplaceCRLF(cs) ==
    IF cs = <<>> THEN <<>>
    ELSE IF Len(cs) >= 2 /\ cs[1] = <<13>> /\ cs[2] = <<10>>
    THEN <<<<10>>>> \o ReplaceCRLF(SubSeq(cs, 3, Len(cs)))
    ELSE <<Head(cs)>> \o ReplaceCRLF(Tail(cs))

\* What the children of the modelled commands do: print "C"; print "A\r\n"
\* and complain "B" on stderr; fail with "B" on stderr.
CacheRuns ==
    { [script |-> <<W("out", 67)>>, exit |-> 0],
      [script |-> <<W("out", 65), W("out", 13), W("out", 10), W("err", 66)>>, exit |-> 0],
      [script |-> <<W("err", 66)>>, exit |-> 1] }

NestedEnv ==
    [hasLoop |-> TRUE, running |-> TRUE, proactor |-> TRUE, windows |-> TRUE]

\* The circumstances of one execution on Windows, where activate.bat
\* exists: a call nested in a running loop, with each child, and a call on
\* an idle proactor loop, where the child makes no difference.
ExecCases ==
    {[e |-> NestedEnv, run |-> r] : r \in CacheRuns}
    \cup {[e |-> [NestedEnv EXCEPT !.running = FALSE],
            run |-> [script |-> <<W("out", 67)>>, exit |-> 0]]}

\* The bytes of a script in the order they are written.
AllBytes(script) == [i \in 1..Len(script) |-> script[i].b]

\* ch.conda_exec(*cmd_args, verbose=True): with_loop(run_command)(command,
\* shell=True, verbose=verbose), RuntimeError on a nonzero return code, else
\* stdout.  run_command takes one positional argument, cmd.
conda_exec(e, run) ==
    LET path == thread_required(ensure_event_loop(e), e.windows)
        inv  == IF path = "thread" THEN ThreadInvoke(<<"cmd">>, {"shell", "verbose"})
                ELSE InlineInvoke(<<"cmd">>, {"shell", "verbose"})
        none == [outcome |-> NoOutcome, spawned |-> FALSE, live |-> <<>>]
    IN  IF path = "AttributeError"
        THEN [none EXCEPT !.outcome = Raise(ErrorObj("AttributeError", "asyncio"))]
        ELSE IF ~FactoryAccepts(inv, 1)
        THEN [none EXCEPT !.outcome = Raise(ErrorObj("TypeError", "call"))]
        ELSE [outcome |-> IF run.exit # 0
                          THEN Raise(ErrorObj("RuntimeError", run))
                          ELSE Return(Text(Decode(StreamBytes(run.script, "out")).text)),
              spawned |-> TRUE,
              live    |-> IF Echoes("True") THEN Decode(AllBytes(run.script)).text
                          ELSE <<>>]

\* The byte contents of every file, without times and listing order.
Bytes(f) == [F |-> f.F.content, D |-> f.D.content, M |-> f.M]

NoCall ==
    [seq |-> 0, called |-> FALSE, ignore |-> {}, force |-> FALSE, verbose |-> FALSE,
     bytes |-> None, key |-> NoOutcome, found |-> FALSE, cached |-> FALSE,
     ran |-> FALSE,
     spawned |-> FALSE, outcome |-> NoOutcome, written |-> <<>>, origin |-> <<>>]

InitialFs ==
    [F |-> [content |-> 1, mtime |-> 0],
     D |-> [content |-> [n \in DNames |-> 1], order |-> <<"a", "b">>],
     M |-> 3]

\* The processes that call conda_exec_memoize at the same time.
Callers == {"p", "q"}

\* A process that has not called yet.
NoCaller ==
    [pc |-> "idle", force |-> FALSE, found |-> FALSE, cached |-> FALSE,
     ran |-> FALSE, spawned |-> FALSE, pending |-> None, live |-> <<>>,
     emissions |-> 0, outcome |-> NoOutcome]

NoCallers == [p \in Callers |-> NoCaller]

CacheIdle ==
    /\ cargs = <<"build", "F">>
    /\ fs = InitialFs
    /\ store = {}
    /\ last = NoCall
    /\ callers = NoCallers

(***************************************************************************)
(* run_command: the steps of the coroutine, its tasks and the child        *)
(***************************************************************************)
\* run_command up to the creation of the child process.
Spawn ==
    /\ rpc = "start"
    /\ IF SpawnOutcome(rin) = "process"
       THEN /\ calive' = TRUE
            /\ status' = IF rin.verbose = "None" THEN "ready" ELSE "none"
            /\ rpc' = "reading"
            /\ UNCHANGED routcome
       ELSE /\ routcome' = Raise(ErrorObj(SpawnOutcome(rin), "spawn"))
            /\ rpc' = "raised"
            /\ UNCHANGED <<calive, status>>
    /\ UNCHANGED <<rin, cpos, closed, pipe, reader, sbuf, echo, cmd_finished, glyph,
                   loopVars, cacheVars>>

\* The child writes its next byte; it blocks while that pipe is full.
ChildWrite ==
    /\ calive /\ ~closed
    /\ cpos < Len(ChildScript(rin))
    /\ LET w == ChildScript(rin)[cpos + 1] IN
       /\ Len(pipe[w.s]) < PipeCap
       /\ pipe' = [pipe EXCEPT ![w.s] = Append(@, w.b)]
    /\ cpos' = cpos + 1
    /\ UNCHANGED <<rpc, rin, calive, closed, reader, sbuf, echo, cmd_finished,
                   status, glyph, routcome,
                   loopVars, cacheVars>>

\* The child has written everything and closes stdout and stderr.
ChildClose ==
    /\ calive /\ ~closed
    /\ cpos = Len(ChildScript(rin))
    /\ closed' = TRUE
    /\ UNCHANGED <<rpc, rin, cpos, calive, pipe, reader, sbuf, echo, cmd_finished,
                   status, glyph, routcome,
                   loopVars, cacheVars>>

ChildExit ==
    /\ calive /\ closed
    /\ calive' = FALSE
    /\ UNCHANGED <<rpc, rin, cpos, closed, pipe, reader, sbuf, echo, cmd_finished,
                   status, glyph, routcome,
                   loopVars, cacheVars>>

\* _read_stream: stream.read() hands over the first k waiting bytes and the
\* callback decodes, echoes and buffers them.  An error in the callback ends
\* the reader task; asyncio.wait() does not re-raise it.
Read(s, k) ==
    /\ rpc = "reading"
    /\ reader[s] = "run"
    /\ k \in 1..Len(pipe[s])
    /\ pipe' = [pipe EXCEPT ![s] = SubSeq(@, k + 1, Len(@))]
    /\ LET d == Decode(SubSeq(pipe[s], 1, k)) IN
       IF d.ok
       THEN /\ sbuf' = [sbuf EXCEPT ![s] = @ \o d.text]
            /\ echo' = IF Echoes(rin.verbose) THEN echo \o d.text ELSE echo
            /\ UNCHANGED reader
       ELSE /\ reader' = [reader EXCEPT ![s] = "failed"]
            /\ UNCHANGED <<sbuf, echo>>
    /\ UNCHANGED <<rpc, rin, cpos, calive, closed, cmd_finished, status, glyph, routcome,
                   loopVars, cacheVars>>

\* stream.read() returns b'' at end of stream: the reader breaks out.
ReadEof(s) ==
    /\ rpc = "reading"
    /\ reader[s] = "run"
    /\ pipe[s] = <<>> /\ closed
    /\ reader' = [reader EXCEPT ![s] = "eof"]
    /\ UNCHANGED <<rpc, rin, cpos, calive, closed, pipe, sbuf, echo, cmd_finished,
                   status, glyph, routcome,
                   loopVars, cacheVars>>

\* asyncio.wait returns once both reader tasks have ended; cmd_finished.set().
Joined ==
    /\ rpc = "reading"
    /\ \A s \in Streams : reader[s] # "run"
    /\ cmd_finished' = TRUE
    /\ rpc' = IF rin.verbose = "None" THEN "await_status" ELSE "wait_exit"
    /\ UNCHANGED <<rin, cpos, calive, closed, pipe, reader, sbuf, echo, status,
                   glyph, routcome,
                   loopVars, cacheVars>>

\* display_status: one turn of the loop prints a frame and goes to sleep.
StatusFrame ==
    /\ status = "ready"
    /\ ~cmd_finished
    /\ glyph' = (glyph + 1) % NGlyphs
    /\ status' = "sleeping"
    /\ UNCHANGED <<rpc, rin, cpos, calive, closed, pipe, reader, sbuf, echo,
                   cmd_finished, routcome,
                   loopVars, cacheVars>>

\* asyncio.sleep(update_interval) is over.
StatusWake ==
    /\ status = "sleeping"
    /\ status' = "ready"
    /\ UNCHANGED <<rpc, rin, cpos, calive, closed, pipe, reader, sbuf, echo,
                   cmd_finished, glyph, routcome,
                   loopVars, cacheVars>>

\* The loop condition fails: print "Finished: ..." and end the task.
StatusFinish ==
    /\ status = "ready"
    /\ cmd_finished
    /\ status' = "done"
    /\ UNCHANGED <<rpc, rin, cpos, calive, closed, pipe, reader, sbuf, echo,
                   cmd_finished, glyph, routcome,
                   loopVars, cacheVars>>

\* A run_command that does not wait for the indicator task.
AwaitStatusSkipped ==
    /\ rpc = "await_status"
    /\ rpc' = "wait_exit"
    /\ UNCHANGED <<rin, cpos, calive, closed, pipe, reader, sbuf, echo,
                   cmd_finished, status, glyph, routcome,
                   loopVars, cacheVars>>

\* await status_future
AwaitStatus ==
    /\ rpc = "await_status"
    /\ status = "done"
    /\ rpc' = "wait_exit"
    /\ UNCHANGED <<rin, cpos, calive, closed, pipe, reader, sbuf, echo,
                   cmd_finished, status, glyph, routcome,
                   loopVars, cacheVars>>

\* return_code = await process.wait(); return the code and both buffers.
WaitExit ==
    /\ rpc = "wait_exit"
    /\ ~calive
    /\ routcome' = Return(Result(ChildExitCode(rin), sbuf["out"], sbuf["err"]))
    /\ rpc' = "done"
    /\ UNCHANGED <<rin, cpos, calive, closed, pipe, reader, sbuf, echo,
                   cmd_finished, status, glyph,
                   loopVars, cacheVars>>

StreamNext ==
    \/ Spawn \/ ChildWrite \/ ChildClose \/ ChildExit
    \/ \E s \in Streams, k \in 1..PipeCap : Read(s, k)
    \/ \E s \in Streams : ReadEof(s)
    \/ Joined \/ StatusFrame \/ StatusWake \/ StatusFinish \/ AwaitStatus \/ WaitExit

SpecStreamInit ==
    /\ rin \in StreamInputs
    /\ StreamIdle
    /\ LoopIdle
    /\ CacheIdle

SpecStream == SpecStreamInit /\ [][StreamNext]_vars

\* The child is scheduled by the system and every task of the loop that can
\* go on is run by the loop.
SpecStreamFair ==
    /\ SpecStream
    /\ WF_vars(Spawn) /\ WF_vars(ChildWrite) /\ WF_vars(ChildClose)
    /\ WF_vars(ChildExit)
    /\ \A s \in Streams :
          /\ WF_vars(\E k \in 1..PipeCap : Read(s, k))
          /\ WF_vars(ReadEof(s))
    /\ WF_vars(Joined) /\ WF_vars(StatusFrame) /\ WF_vars(StatusWake)
    /\ WF_vars(StatusFinish) /\ WF_vars(AwaitStatus) /\ WF_vars(WaitExit)

(***************************************************************************)
(* with_loop: the calling thread and the worker thread                     *)
(***************************************************************************)
LoopInit ==
    /\ lpc = "idle"
    /\ lenv \in {e \in LoopEnvs : ValidEnv(e)}
    /\ lcall \in [args : ArgVectors, kwargs : KwargSets, arity : 0..MaxArgs]
    /\ taskEnd \in TaskEnds
    /\ lpath = "none"
    /\ factoryCall = None
    /\ tpc = "none"
    /\ finished = NoEvent
    /\ loutcome = NoOutcome
    /\ rin = [shell |-> TRUE, verbose |-> "True", shellOk |-> TRUE,
              programOk |-> TRUE, script |-> <<>>, exit |-> 0]
    /\ StreamIdle
    /\ CacheIdle

\* wrapped(*args, **kwargs) up to the point where it blocks or returns.
Call ==
    /\ lpc = "idle"
    /\ LET loop == ensure_event_loop(lenv)
           path == thread_required(loop, lenv.windows)
           inv  == IF path = "thread" THEN ThreadInvoke(lcall.args, lcall.kwargs)
                   ELSE InlineInvoke(lcall.args, lcall.kwargs)
       IN
       /\ lpath' = path
       /\ IF path = "AttributeError"
          THEN /\ loutcome' = Raise(ErrorObj("AttributeError", "asyncio"))
               /\ lpc' = "done"
               /\ UNCHANGED <<factoryCall, tpc>>
          ELSE IF ~FactoryAccepts(inv, lcall.arity)
          THEN /\ loutcome' = Raise(ErrorObj("TypeError", "call"))
               /\ lpc' = "done"
               /\ UNCHANGED <<factoryCall, tpc>>
          ELSE IF path = "thread"
          THEN /\ factoryCall' = inv
               /\ tpc' = "started"
               /\ lpc' = "waiting"
               /\ UNCHANGED loutcome
          ELSE /\ factoryCall' = inv
               /\ loutcome' = TaskOutcome(inv, taskEnd)
               /\ lpc' = "done"
               /\ UNCHANGED tpc
    /\ finished' = NoEvent
    /\ UNCHANGED <<lenv, lcall, taskEnd, streamVars, cacheVars>>

\* _run: the worker drives the task on its own new loop and stores the end.
WorkerRun ==
    /\ tpc = "started"
    /\ LET o == TaskOutcome(factoryCall, taskEnd) IN
       IF o.kind = "return" \/ Caught(o)
       THEN /\ finished' = RunStores(o)
            /\ tpc' = "stored"
       ELSE /\ tpc' = "dead"
            /\ UNCHANGED finished
    /\ UNCHANGED <<lpc, lenv, lcall, taskEnd, lpath, factoryCall, loutcome, streamVars, cacheVars>>

\* finished.set()
WorkerSet ==
    /\ tpc = "stored"
    /\ finished' = [finished EXCEPT !.isSet = TRUE]
    /\ tpc' = "exited"
    /\ UNCHANGED <<lpc, lenv, lcall, taskEnd, lpath, factoryCall, loutcome, streamVars, cacheVars>>

\* finished.wait() returns; the error is re-raised or the result returned.
Wake ==
    /\ lpc = "waiting"
    /\ finished.isSet
    /\ loutcome' = AfterWait(finished)
    /\ lpc' = "done"
    /\ UNCHANGED <<lenv, lcall, taskEnd, lpath, factoryCall, tpc, finished, streamVars, cacheVars>>

LoopNext == Call \/ WorkerRun \/ WorkerSet \/ Wake


SpecLoop == LoopInit /\ [][LoopNext]_vars

\* The calling thread and the started worker thread are both scheduled.
SpecLoopFair ==
    /\ SpecLoop
    /\ WF_vars(Call) /\ WF_vars(WorkerRun) /\ WF_vars(WorkerSet) /\ WF_vars(Wake)


(***************************************************************************)
(* conda_exec_memoize: the calls and what happens on disk between them     *)
(***************************************************************************)
OthersIdle ==
    /\ LoopIdle
    /\ rin = [shell |-> TRUE, verbose |-> "True", shellOk |-> TRUE,
              programOk |-> TRUE, script |-> <<>>, exit |-> 0]
    /\ StreamIdle

\* Lines 71-126 of the call, common to every call: the options, the bytes on
\* disk at that moment and the cache key.
Keyed(ign, force, verbose) ==
    [NoCall EXCEPT
        !.seq = 1 - last.seq, !.called = TRUE, !.ignore = ign, !.force = force,
        !.verbose = verbose, !.bytes = Bytes(fs),
        !.key = Fingerprint(cargs, ign, verbose, fs)]

\* One call conda_exec_memoize(*cargs, verbose=, __force_exec__=,
\* __ignore_paths__=) in the circumstances x.
conda_exec_memoize(ign, force, verbose, x) ==
    /\ LET call == Keyed(ign, force, verbose) IN
       IF call.key.kind = "raise"
       THEN /\ last' = [call EXCEPT !.outcome = call.key]
            /\ UNCHANGED store
       ELSE LET fp     == call.key.val
                exists == HasEntry(store, fp)
                cached == exists /\ ~force
                st1    == IF exists /\ force THEN Removed(store, fp) ELSE store
            IN
            IF Loads(st1, fp)
            THEN \* joblib loads output.pkl; the function is not run.
                 LET en     == EntryOf(st1, fp)
                     output == ReplaceCRLF(en.out.chars)
                 IN /\ last' = [call EXCEPT
                                  !.found = exists,
                                  !.cached = cached, !.origin = en.live,
                                  !.outcome = Return(Text(output)),
                                  !.written = IF cached THEN output ELSE <<>>]
                    /\ store' = st1
            ELSE \* joblib runs ch.conda_exec and persists what it returns.
                 LET r == conda_exec(x.e, x.run) IN
                 IF r.outcome.kind = "return"
                 THEN LET output == ReplaceCRLF(r.outcome.val.chars) IN
                      /\ last' = [call EXCEPT
                                    !.found = exists,
                                    !.cached = cached, !.ran = TRUE,
                                    !.spawned = r.spawned,
                                    !.outcome = Return(Text(output)),
                                    !.written = r.live \o (IF cached THEN output ELSE <<>>)]
                      /\ store' = Persisted(st1, fp, r.outcome.val, r.live)
                 ELSE /\ last' = [call EXCEPT
                                    !.found = exists,
                                    !.cached = cached, !.ran = TRUE,
                                    !.spawned = r.spawned,
                                    !.outcome = r.outcome, !.written = r.live]
                      /\ store' = st1
    /\ UNCHANGED <<cargs, fs, callers, loopVars, streamVars>>

\* Lines 71-126 alone: the fingerprint of the call is computed.
FingerprintStep(ign, verbose) ==
    /\ last' = Keyed(ign, FALSE, verbose)
    /\ UNCHANGED <<cargs, fs, store, callers, loopVars, streamVars>>

\* Something rewrites file F with other bytes.
WriteF(c) ==
    /\ "F" \in Named(cargs)
    /\ c # fs.F.content
    /\ fs' = [fs EXCEPT !.F.content = c]
    /\ UNCHANGED <<cargs, store, last, callers, loopVars, streamVars>>

\* Something sets F's modification time and leaves its bytes alone.
TouchF ==
    /\ "F" \in Named(cargs)
    /\ fs' = [fs EXCEPT !.F.mtime = 1 - @]
    /\ UNCHANGED <<cargs, store, last, callers, loopVars, streamVars>>

\* Something rewrites a file of directory D with other bytes.
WriteD(n, c) ==
    /\ "D" \in Named(cargs)
    /\ c # fs.D.content[n]
    /\ fs' = [fs EXCEPT !.D.content[n] = c]
    /\ UNCHANGED <<cargs, store, last, callers, loopVars, streamVars>>

\* The entries of D are written anew with the same names and bytes, and the
\* directory lists them in another order.
RelistD(o) ==
    /\ "D" \in Named(cargs)
    /\ o # fs.D.order
    /\ fs' = [fs EXCEPT !.D.order = o]
    /\ UNCHANGED <<cargs, store, last, callers, loopVars, streamVars>>

\* Something damages the output.pkl of one fingerprint.
Corrupt ==
    /\ \E en \in store :
          /\ en.readable
          /\ store' = Removed(store, en.fp) \cup {Unreadable(en.fp)}
    /\ UNCHANGED <<cargs, fs, last, callers, loopVars, streamVars>>

\* Something rewrites meta.yaml.
WriteM(c) ==
    /\ "M" \in Named(cargs)
    /\ c # fs.M
    /\ fs' = [fs EXCEPT !.M = c]
    /\ UNCHANGED <<cargs, store, last, callers, loopVars, streamVars>>

\* The bytes of a file change.
Rewrite ==
    \/ \E c \in Contents : WriteF(c)
    \/ \E n \in DNames, c \in Contents : WriteD(n, c)
    \/ \E c \in MetaContents : WriteM(c)

\* Whatever can happen on disk that the fingerprint may see: the bytes, the
\* modification time, the order of a listing.
Disk ==
    \/ Rewrite
    \/ TouchF
    \/ \E o \in WalkOrders : RelistD(o)

\* The calls of the memoized command: a file argument, a --croot directory
\* and a recipe, with no ignored paths; between the calls files are
\* rewritten and stored entries damaged.
Init ==
    /\ cargs \in Invocations \ {<<"build", "D">>}
    /\ fs = InitialFs
    /\ store = {}
    /\ last = NoCall
    /\ callers = NoCallers
    /\ OthersIdle

Next ==
    \/ \E force \in BOOLEAN, verbose \in BOOLEAN, x \in ExecCases :
            conda_exec_memoize({}, force, verbose, x)
    \/ Rewrite
    \/ Corrupt

Spec == Init /\ [][Next]_vars

\* The fingerprint alone, for every argument vector and ignore list.
FpInit ==
    /\ cargs \in Invocations
    /\ fs = InitialFs
    /\ store = {}
    /\ last = NoCall
    /\ callers = NoCallers
    /\ OthersIdle

FpNext ==
    \/ \E ign \in IgnoreSets, verbose \in BOOLEAN : FingerprintStep(ign, verbose)
    \/ Disk

SpecFp == FpInit /\ [][FpNext]_vars

\* ---- two calls of the same invocation at the same time ----

\* The fingerprint both callers compute (lines 71-126).
RaceFp == Fingerprint(cargs, {}, FALSE, fs).val

\* What the store can hold when the callers arrive: nothing, the entry of an
\* earlier execution, or an entry that no longer unpickles.
RaceStores ==
    {{}, {Unreadable(RaceFp)}}
    \cup {Persisted({}, RaceFp, conda_exec(x.e, x.run).outcome.val,
                    conda_exec(x.e, x.run).live) :
            x \in {y \in ExecCases : conda_exec(y.e, y.run).outcome.kind = "return"}}

\* Lines 128-140: isfile() on output.pkl decides cached and whether the
\* forced caller goes on to remove the file.
CheckExists(p, force) ==
    /\ callers[p].pc = "idle"
    /\ LET exists == HasEntry(store, RaceFp) IN
       callers' = [callers EXCEPT
            ![p] = [@ EXCEPT !.force = force, !.found = exists,
                             !.cached = exists /\ ~force,
                             !.pc = IF exists /\ force THEN "remove" ELSE "call"]]
    /\ UNCHANGED <<cargs, fs, store, last, loopVars, streamVars>>

\* Line 132: remove() of output.pkl, which raises when the file is no longer
\* there.
RemoveEntry(p) ==
    /\ callers[p].pc = "remove"
    /\ IF HasEntry(store, RaceFp)
       THEN /\ store' = Removed(store, RaceFp)
            /\ callers' = [callers EXCEPT ![p].pc = "call"]
       ELSE /\ store' = store
            /\ callers' = [callers EXCEPT
                    ![p] = [@ EXCEPT !.pc = "done",
                                     !.outcome = Raise(ErrorObj("OSError", "remove"))]]
    /\ UNCHANGED <<cargs, fs, last, loopVars, streamVars>>

\* Lines 156-161 on the value the memoized function gave: replace, write to
\* standard output when cached, return.
Returned(c, out, wrote) ==
    [c EXCEPT !.pc = "done", !.pending = None,
              !.outcome = Return(Text(ReplaceCRLF(out.chars))),
              !.emissions = wrote + IF c.cached THEN 1 ELSE 0]

\* Line 156, the memoized conda_exec: a readable output.pkl is returned;
\* otherwise the function runs, echoing the child's output as it arrives.
CallCached(p, x) ==
    /\ callers[p].pc = "call"
    /\ IF Loads(store, RaceFp)
       THEN callers' = [callers EXCEPT
                ![p] = Returned(@, EntryOf(store, RaceFp).out, 0)]
       ELSE LET r == conda_exec(x.e, x.run)
                c == [callers[p] EXCEPT !.ran = TRUE, !.spawned = r.spawned,
                                        !.live = r.live]
            IN callers' = [callers EXCEPT
                    ![p] = IF r.outcome.kind = "return"
                           THEN [c EXCEPT !.pc = "persist", !.pending = r.outcome.val]
                           ELSE [c EXCEPT !.pc = "done", !.outcome = r.outcome]]
    /\ UNCHANGED <<cargs, fs, store, last, loopVars, streamVars>>

\* The memoized function persists what the execution returned, then the caller
\* goes through lines 156-161.
PersistOutput(p) ==
    /\ callers[p].pc = "persist"
    /\ store' = Persisted(store, RaceFp, callers[p].pending, callers[p].live)
    /\ callers' = [callers EXCEPT
            ![p] = Returned(@, callers[p].pending,
                            IF callers[p].spawned THEN 1 ELSE 0)]
    /\ UNCHANGED <<cargs, fs, last, loopVars, streamVars>>

RaceInit ==
    /\ cargs = <<"build", "F">>
    /\ fs = InitialFs
    /\ store \in RaceStores
    /\ last = NoCall
    /\ callers = NoCallers
    /\ OthersIdle

RaceNext ==
    \E p \in Callers :
        \/ \E force \in BOOLEAN : CheckExists(p, force)
        \/ RemoveEntry(p)
        \/ \E x \in ExecCases : CallCached(p, x)
        \/ PersistOutput(p)

SpecRace == RaceInit /\ [][RaceNext]_vars

\* The calls of the memoized command with its path argument on the ignore
\* list, a file, a directory or a meta.yaml, while anything happens to it on
\* disk.
IgnInit ==
    /\ cargs \in Invocations \ {<<"build", "--croot", "D">>}
    /\ fs = InitialFs
    /\ store = {}
    /\ last = NoCall
    /\ callers = NoCallers
    /\ OthersIdle

IgnNext ==
    \/ \E force \in BOOLEAN, x \in ExecCases :
            conda_exec_memoize(Reachable(cargs), force, FALSE, x)
    \/ Disk
    \/ Corrupt

SpecIgn == IgnInit /\ [][IgnNext]_vars

(***************************************************************************)
(* Claims about conda_exec_memoize                                         *)
(***************************************************************************)
\* This step is a call (or a fingerprint computation) that follows an
\* earlier one with the same argument vector.
FollowingCall == last.called /\ last'.seq # last.seq

SameOptions == last'.ignore = last.ignore /\ last'.verbose = last.verbose

\* The paths among them that are neither the --croot value nor ignored.
Contributing(args, ign) ==
    {p \in Reachable(args) :
        /\ realpath(p) \notin {realpath(q) : q \in ign}
        /\ \E i \in 1..Len(args) :
              args[i] = p /\ ~(i > 1 /\ args[i - 1] = "--croot")}

C2_ForceAlwaysSpawns ==
    (last.called /\ last.force)
    => /\ last.spawned
       /\ last.outcome.kind = "return"
            => /\ last.key.kind = "return"
               /\ HasEntry(store, last.key.val)
               /\ Text(ReplaceCRLF(EntryOf(store, last.key.val).out.chars))
                    = last.outcome.val

C4_Deterministic ==
    [][(FollowingCall /\ SameOptions /\ last'.bytes = last.bytes)
        => last'.key = last.key]_vars

\* C7: on a cache hit that returns, the call writes to the caller's standard
\* output what the execution that produced the entry wrote there.
C7_HitWritesWhatFreshRunWrote ==
    (last.called /\ last.cached /\ ~last.ran /\ ~last.force
        /\ last.outcome.kind = "return")
    => last.written = last.origin

\* This step is a call.
CallStep == last'.seq # last.seq

SameCall == SameOptions /\ last'.bytes = last.bytes

\* C11: a call that ends in an error adds no entry to the store, and after
\* a call that failed on the child's nonzero exit the next call with the same
\* invocation, not forced, spawns the child again.
C11_FailuresNeverCached ==
    [][/\ (CallStep /\ last'.outcome.kind = "raise") => store' \subseteq store
       /\ (FollowingCall /\ SameCall /\ ~last'.force
                /\ last.outcome.kind = "raise"
                /\ last.outcome.val.cls = "RuntimeError")
            => last'.spawned]_vars

\* C12: a call that is not forced and finds an entry for its fingerprint
\* that cannot be unpickled runs the command again in a new child and, unless
\* that child exits nonzero, returns the fresh result and leaves a readable
\* entry holding it; the damaged entry is never the reason of an error.
C12_CorruptionIsMiss ==
    [][(/\ CallStep /\ ~last'.force
        /\ last'.key.kind = "return"
        /\ HasEntry(store, last'.key.val)
        /\ ~EntryOf(store, last'.key.val).readable)
       => /\ last'.ran /\ last'.spawned
          /\ \/ /\ last'.outcome.kind = "return"
                /\ Loads(store', last'.key.val)
                /\ Text(ReplaceCRLF(EntryOf(store', last'.key.val).out.chars))
                     = last'.outcome.val
             \/ /\ last'.outcome.kind = "raise"
                /\ last'.outcome.val.cls = "RuntimeError"]_vars

\* C14 as stated: a call leaves every stored entry as it is, unless the call
\* is forced and has the entry's fingerprint.
C14_NoImplicitExpiry ==
    [][CallStep
        => \A en \in store :
              \/ en \in store'
              \/ last'.force /\ last'.key = Return(en.fp)]_vars

\* C14, amended: a call leaves every stored entry that can be unpickled as
\* it is, unless the call is forced and has the entry's fingerprint.
C14_NoExpiryOfReadable ==
    [][CallStep
        => \A en \in store :
              en.readable
              => \/ en \in store'
                 \/ last'.force /\ last'.key = Return(en.fp)]_vars

\* A call with another fingerprint has run the command and stored its
\* result, and a readable entry of an earlier call is in the store.
C14_Witness ==
    /\ last.called /\ last.ran
    /\ last.key.kind = "return"
    /\ Loads(store, last.key.val)
    /\ \E en \in store : en.readable /\ en.fp # last.key.val

\* C15: for a meta.yaml without git_url, git_src_info returns None and does
\* not raise; it returns the triple only for a git_url that names an
\* existing directory.
C15_NoGitUrlGivesNone ==
    /\ fs.M = 1 => git_src_info(fs) = Return(None)
    /\ (git_src_info(fs).kind = "return" /\ git_src_info(fs).val # None)
        => fs.M = 3

C24_IgnoredPathSkipped ==
    [][FollowingCall
        => /\ last'.key = last.key
           /\ (/\ ~last'.force
               /\ last.outcome.kind = "return"
               /\ ~\E en \in store : en.fp = last.key.val /\ ~en.readable)
              => /\ last'.cached /\ ~last'.spawned
                 /\ last'.outcome = last.outcome]_vars

\* A call that ignores its path argument hit the entry of an earlier call
\* after the bytes of what the path names were changed.
C24_Witness ==
    /\ last.called /\ last.ignore = Reachable(cargs)
    /\ last.cached /\ ~last.spawned
    /\ last.bytes # Bytes(InitialFs)
    /\ last.bytes = Bytes(fs)

\* C25: the contribution of a directory argument is decided by the files under
\* it and their bytes alone: two fingerprints computed with the same options
\* for a directory argument are equal exactly when every file under the
\* directory has the same bytes at both computations.
C25_DirectoryIdentity ==
    [][(FollowingCall /\ SameOptions
            /\ "D" \in Contributing(cargs, last.ignore)
            /\ last.key.kind = "return" /\ last'.key.kind = "return")
        => (last'.key = last.key <=> last'.bytes.D = last.bytes.D)]_vars

\* C28: a call has the fingerprint, or the failure, that the same call with
\* the other verbosity has on the same disk.
C28_VerbosityKeepsOutcome ==
    [][CallStep
        => last'.key = Fingerprint(cargs, last'.ignore, ~last'.verbose, fs)]_vars

\* C30: after a forced call returned, a call that is not forced, with any
\* verbosity, over the same bytes and with the entry undamaged has the same
\* fingerprint, is a hit and spawns no child.
C30_OptionsNotInKey ==
    [][(FollowingCall /\ last'.bytes = last.bytes
            /\ last.force /\ ~last'.force
            /\ last.outcome.kind = "return"
            /\ ~\E en \in store : en.fp = last.key.val /\ ~en.readable)
        => /\ last'.key = last.key
           /\ last'.cached /\ ~last'.spawned]_vars

\* Both callers are through, and what each was asked.
BothDone == \A p \in Callers : callers[p].pc = "done"

\* C26: when two calls that are not forced both find no entry, both return
\* unless the child of a call exits nonzero, and once one has returned the
\* store holds one entry of the fingerprint, a readable one.
C26_SameFingerprintRace ==
    (BothDone /\ \A p \in Callers : ~callers[p].force /\ ~callers[p].found)
    => /\ \A p \in Callers :
            callers[p].outcome.kind = "raise"
                => callers[p].outcome.val.cls = "RuntimeError"
       /\ (\E p \in Callers : callers[p].outcome.kind = "return")
            => /\ Loads(store, RaceFp)
               /\ Cardinality({en \in store : en.fp = RaceFp}) = 1

\* C27: a call that returns has written the output of the command to the
\* caller's standard output once.
C27_ExactlyOnceEmission ==
    \A p \in Callers :
        (callers[p].pc = "done" /\ callers[p].outcome.kind = "return")
            => callers[p].emissions = 1

\* C29: of two forced calls neither ends with the error of removing a file
\* that is no longer there, and both execute the command.
C29_ConcurrentForced ==
    \A p \in Callers :
        (callers[p].pc = "done" /\ \A q \in Callers : callers[q].force)
            => /\ callers[p].outcome # Raise(ErrorObj("OSError", "remove"))
               /\ callers[p].ran

(***************************************************************************)
(* Claims about run_command                                                *)
(***************************************************************************)
\* The text a stream carries: all its bytes, decoded as one piece.
StreamText(in, s) == Decode(StreamBytes(ChildScript(in), s)).text

\* C5: whatever the interleaving and the chunking, the returned stdout is the
\* whole text the child wrote to stdout, in order, and likewise for stderr.
C5_StreamFidelity ==
    rpc = "done" =>
        /\ routcome.val.stdout = StreamText(rin, "out")
        /\ routcome.val.stderr = StreamText(rin, "err")

\* C10 as stated: whenever the program cannot be started, with or without a
\* shell, run_command ends by raising and never by returning a result.
C10_SpawnFailureRaises ==
    ((~rin.programOk \/ (rin.shell /\ ~rin.shellOk)) /\ rpc \in {"done", "raised"}) =>
        routcome.kind = "raise"

\* C10 as amended: the call raises exactly when the process it asks the OS
\* for cannot be created; that is the program without a shell and the shell
\* with one, where a program the shell cannot start comes back as a nonzero
\* exit code.
C10_SpawnFailureByMode ==
    /\ (~rin.shell /\ ~rin.programOk /\ rpc # "start") =>
          (rpc = "raised" /\ routcome.kind = "raise" /\ ~calive)
    /\ (rin.shell /\ ~rin.shellOk /\ rpc # "start") =>
          (rpc = "raised" /\ routcome.kind = "raise" /\ ~calive)
    /\ (rin.shell /\ rin.shellOk /\ ~rin.programOk /\ rpc = "done") =>
          (routcome.kind = "return" /\ routcome.val.rc # 0)
    /\ rpc = "raised" => (~rin.programOk \/ ~rin.shellOk)

C10_Witness ==
    /\ rpc = "raised"
    /\ ~rin.shell /\ ~rin.programOk
    /\ routcome = Raise(ErrorObj("FileNotFoundError", "spawn"))

\* C13: when a stream reader's callback has raised while the streams were
\* drained, run_command does not end by returning a result: the failure
\* reaches the caller.
C13_NoSilentSwallowing ==
    (\E s \in Streams : reader[s] = "failed") => rpc # "done"

\* C19: whatever the child writes and however the pipes fill, a run_command
\* that has created its child returns in the end.
C19_NoPipeDeadlock == (rpc = "reading") ~> (rpc = "done")

\* C20: run_command waits for the child's exit only when both readers have
\* met the end of their stream, and returns only when the child has exited,
\* with the child's exit code.
C20_ExitOrdering ==
    /\ rpc \in {"wait_exit", "done"} => \A s \in Streams : reader[s] = "eof"
    /\ rpc = "done" =>
          /\ ~calive
          /\ routcome.kind = "return"
          /\ routcome.val.rc = ChildExitCode(rin)

\* The bytes of a text, character after character.
RECURSIVE BytesOf(_)
BytesOf(text) ==
    IF text = <<>> THEN <<>> ELSE Head(text) \o BytesOf(Tail(text))

\* The bytes the reader of stream s has been handed so far: what the child
\* wrote to s less what still waits in the pipe.
Received(s) ==
    LET written == StreamBytes(SubSeq(ChildScript(rin), 1, cpos), s)
    IN  SubSeq(written, 1, Len(written) - Len(pipe[s]))

\* C21: with verbose=True every chunk handed to a reader is in the stream's
\* buffer and was echoed; with verbose=False or None nothing is echoed; the
\* indicator task exists with verbose=None only.
C21_VerbosityPolicy ==
    /\ rin.verbose # "True" => echo = <<>>
    /\ status # "none" => rin.verbose = "None"
    /\ rin.verbose = "True" =>
          /\ \A s \in Streams : BytesOf(sbuf[s]) = Received(s)
          /\ Len(BytesOf(echo)) = Len(Received("out")) + Len(Received("err"))

\* C22: with verbose=None, once cmd_finished is set no further frame is
\* printed, the indicator task does not go back to sleep, it prints the
\* 'Finished' line and ends, and stays ended; run_command does not return
\* before that.
C22_IndicatorTermination ==
    /\ [][/\ cmd_finished => glyph' = glyph
          /\ (cmd_finished /\ status # "sleeping") => status' # "sleeping"
          /\ status = "done" => status' = "done"]_vars
    /\ [](rpc = "done" /\ rin.verbose = "None" => status = "done")
    /\ (cmd_finished /\ rin.verbose = "None") ~> (status = "done")

\* A run with the indicator has printed frames, the indicator has ended and
\* run_command has returned.
C22_Witness ==
    /\ rin.verbose = "None"
    /\ glyph > 0
    /\ status = "done"
    /\ rpc = "done"

\* C23: with verbose=None the 'Finished' line is printed only when the child
\* process has exited.
C23_FinishedAfterExit ==
    status = "done" => ~calive

(***************************************************************************)
(* Claims about with_loop                                                  *)
(***************************************************************************)
\* What the caller is owed for a call: the end of the task built from the
\* call's own arguments, or the TypeError of a call the factory rejects.
Expected(call, end) ==
    IF ~FactoryAccepts(ThreadInvoke(call.args, call.kwargs), call.arity)
    THEN Raise(ErrorObj("TypeError", "call"))
    ELSE TaskOutcome(ThreadInvoke(call.args, call.kwargs), end)

\* What a completed call of wrapped() yields under environment e, or
\* NoOutcome when the calling thread would wait forever.
WrappedOutcome(call, e, end) ==
    LET path == thread_required(ensure_event_loop(e), e.windows)
        inv  == IF path = "thread" THEN ThreadInvoke(call.args, call.kwargs)
                ELSE InlineInvoke(call.args, call.kwargs)
        o    == TaskOutcome(inv, end)
    IN  IF path = "AttributeError" THEN Raise(ErrorObj("AttributeError", "asyncio"))
        ELSE IF ~FactoryAccepts(inv, call.arity) THEN Raise(ErrorObj("TypeError", "call"))
        ELSE IF path = "inline" THEN o
        ELSE IF o.kind = "return" \/ Caught(o)
             THEN AfterWait([RunStores(o) EXCEPT !.isSet = TRUE])
        ELSE NoOutcome

\* C6: a call made while the calling thread's loop is already running takes
\* the worker-thread path, never leaves the caller waiting on a dead worker,
\* and ends with what the same call would yield were the loop not running.
C6_NestedSameAsNonNested ==
    lenv.running =>
        /\ lpc # "idle" => lpath = "thread"
        /\ ~(lpc = "waiting" /\ tpc = "dead")
        /\ lpc = "done" =>
              loutcome = WrappedOutcome(lcall, [lenv EXCEPT !.running = FALSE], taskEnd)

\* C8: on either path the factory is invoked with the call's positional and
\* keyword arguments and the caller gets the end of that task.
C8_TransparentScheduling ==
    (lpc = "done" /\ lpath \in {"inline", "thread"}) =>
        /\ factoryCall # None => factoryCall = ThreadInvoke(lcall.args, lcall.kwargs)
        /\ loutcome = Expected(lcall, taskEnd)

C16_HandOffLive == (lpc = "waiting") ~> (lpc = "done")

\* C18: a call takes the worker thread exactly when the thread's loop is
\* running, or the platform is Windows and the loop is no ProactorEventLoop;
\* every other call is driven inline.
C18_DecisionTable ==
    lpc # "idle" =>
        lpath = IF \/ ensure_event_loop(lenv).running
                   \/ lenv.windows /\ ~ensure_event_loop(lenv).proactor
                THEN "thread" ELSE "inline"

=============================================================================
